---- MODULE Spec2Model ----
(***************************************************************************)
(* Langufy backend: user registration, group membership and the word      *)
(* dictionary with its external-provider fallback.                        *)
(*                                                                         *)
(* The relational store holds committed rows only.  Every request runs in *)
(* its own session (database.py get_db); a handler is a sequence of store *)
(* statements, and each statement or commit is one atomic step, so the    *)
(* steps of concurrent requests interleave as they do under the store's   *)
(* READ COMMITTED isolation.  A request's unflushed changes live in its   *)
(* own record until its commit step applies them.                         *)
(***************************************************************************)
EXTENDS Integers, Sequences, FiniteSets, TLC

VARIABLES
    users,        \* table users: rows [id, email, user_name, role]
    groups,       \* table groups: rows [uid, name, owner_id, members_count]
    group_members,\* association table: pairs <<group uid, user id>>
    nextGid,      \* number of group uids generated so far (uuid4 never repeats)
    categories,   \* table categories: rows [uid, name]
    words,        \* table words: rows [uid, english, definition, category_uid]
    nextCid,      \* number of category uids generated so far
    nextWid,      \* number of word uids generated so far
    req           \* the requests in flight: one record per request slot

vars == <<users, groups, group_members, nextGid, categories, words,
          nextCid, nextWid, req>>

userVars  == <<users>>
groupVars == <<groups, group_members, nextGid>>
wordVars  == <<categories, words, nextCid, nextWid>>

-----------------------------------------------------------------------------
(* Request slots: each runs one request at a time, then returns to idle.   *)
Reqs == {"r1", "r2"}

Idle == [pc |-> "idle"]

None == "None"

(* A finished request: the response's status and whether the request      *)
(* committed a change to the store.                                       *)
IsDone(p) == req[p].pc = "done"

Finish(p, r, status) ==
    req' = [req EXCEPT ![p] = [r EXCEPT !.pc = "done", !.resp = status]]

(* The response has been sent; the slot is free for the next request.     *)
Return(p) ==
    /\ IsDone(p)
    /\ req' = [req EXCEPT ![p] = Idle]
    /\ UNCHANGED <<userVars, groupVars, wordVars>>

-----------------------------------------------------------------------------
(* Strings are sequences of one-character strings.                        *)

Letters == {"a", "b", "c", "d", "e", "A", "B", "g", "z"}
Digits  == {"1"}

LowerChar(c) ==
    CASE c = "A" -> "a"
      [] c = "B" -> "b"
      [] OTHER   -> c

Lower(s) == [i \in 1..Len(s) |-> LowerChar(s[i])]

RECURSIVE Remove(_, _)
Remove(s, c) ==
    IF s = <<>> THEN <<>>
    ELSE IF Head(s) = c THEN Remove(Tail(s), c)
    ELSE <<Head(s)>> \o Remove(Tail(s), c)

(* str.isalnum(): non-empty and every character alphanumeric              *)
IsAlnum(s) == s # <<>> /\ \A i \in 1..Len(s) : s[i] \in Letters \cup Digits

-----------------------------------------------------------------------------
(* Users: user/schemas.py, user/models.py, user/routers.py                 *)

MaxUsers == 3

(* UserBase.user_name: Field(min_length=3, max_length=50) and the          *)
(* validator, which rejects anything but letters, digits, '_' and '-'      *)
(* and returns the lowercased name.                                        *)
UsernameAccepted(v) ==
    /\ Len(v) >= 3
    /\ Len(v) <= 50
    /\ IsAlnum(Remove(Remove(v, "_"), "-"))

validate_username(v) == Lower(v)

(* The request bodies tried: four that are unique in every column, one     *)
(* that repeats an email, one that repeats a username up to case, and one  *)
(* whose username the validator rejects.                                   *)
RegInputs ==
    { [email |-> "e1", user_name |-> <<"a","b","c">>, role |-> "student"],
      [email |-> "e2", user_name |-> <<"b","c","d">>, role |-> "teacher"],
      [email |-> "e3", user_name |-> <<"c","_","1">>, role |-> "admin"],
      [email |-> "e4", user_name |-> <<"d","-","e">>, role |-> "student"],
      [email |-> "e1", user_name |-> <<"e","e","e">>, role |-> "teacher"],
      [email |-> "e5", user_name |-> <<"A","B","c">>, role |-> "student"],
      [email |-> "e6", user_name |-> <<"a","!","c">>, role |-> "student"] }

CapacityReachedOffByOne(user_count) == user_count > MaxUsers

(* if user_count >= 3 *)
CapacityReached(user_count) == user_count >= MaxUsers

(* The request arrives: FastAPI builds the UserCreate body and answers     *)
(* 422 without calling the handler when the body does not validate.        *)
(* Otherwise the handler runs its first statement, the count of users,     *)
(* and answers 400 when the ceiling is reached.                            *)
RegisterCount(p) ==
    /\ req[p].pc = "idle"
    /\ \E i \in RegInputs :
         LET r == [op |-> "register_user", pc |-> "check_email",
                   email |-> i.email,
                   user_name |-> validate_username(i.user_name),
                   role |-> i.role,
                   user_count |-> Cardinality(users),
                   resp |-> None, wrote |-> FALSE]
         IN IF ~UsernameAccepted(i.user_name)
            THEN Finish(p, [r EXCEPT !.user_name = i.user_name,
                                     !.user_count = -1], "422")
            ELSE IF CapacityReached(r.user_count)
            THEN Finish(p, r, "400_closed")
            ELSE req' = [req EXCEPT ![p] = r]
    /\ UNCHANGED <<userVars, groupVars, wordVars>>

(* select users where email == user.email *)
RegisterCheckEmail(p) ==
    /\ req[p].pc = "check_email"
    /\ IF \E u \in users : u.email = req[p].email
       THEN Finish(p, req[p], "400_email")
       ELSE req' = [req EXCEPT ![p].pc = "check_username"]
    /\ UNCHANGED <<userVars, groupVars, wordVars>>

(* select users where user_name == user.user_name *)
RegisterCheckUsername(p) ==
    /\ req[p].pc = "check_username"
    /\ IF \E u \in users : u.user_name = req[p].user_name
       THEN Finish(p, req[p], "400_username")
       ELSE req' = [req EXCEPT ![p].pc = "insert"]
    /\ UNCHANGED <<userVars, groupVars, wordVars>>

(* The id a new row gets: uuid4, never one in use.                         *)
FreshUserId == Cardinality(users) + 1

(* users.email and users.user_name are unique columns *)
UsersUniqueViolated(email, user_name) ==
    \E u \in users : u.email = email \/ u.user_name = user_name

(* db.add(new_user); commit.  The store rejects a duplicate with an        *)
(* IntegrityError, which the handler turns into a 500 after rollback.      *)
RegisterCommit(p) ==
    /\ req[p].pc = "insert"
    /\ IF UsersUniqueViolated(req[p].email, req[p].user_name)
       THEN /\ Finish(p, req[p], "500_create_failed")
            /\ UNCHANGED users
       ELSE /\ users' = users \cup
                   { [id |-> FreshUserId, email |-> req[p].email,
                      user_name |-> req[p].user_name, role |-> req[p].role] }
            /\ Finish(p, [req[p] EXCEPT !.wrote = TRUE], "201")
    /\ UNCHANGED <<groupVars, wordVars>>

RegisterUser(p) ==
    \/ RegisterCount(p)
    \/ RegisterCheckEmail(p)
    \/ RegisterCheckUsername(p)
    \/ RegisterCommit(p)

-----------------------------------------------------------------------------
(* Groups: group/models.py, group/routers.py                               *)

MaxGroups == 1

GroupNames == {"Math101", "Physics"}

(* User ids that no stored user has. *)
UnknownUserIds == {0}

(* The group operations' callers are authenticated users: the bearer token *)
(* resolves to a stored user before the handler runs.                      *)
get_current_user == users

(* Users.has_permission: role_hierarchy.get(role, 0) *)
role_hierarchy(role) ==
    CASE role = "student"    -> 1
      [] role = "teacher"    -> 2
      [] role = "admin"      -> 3
      [] role = "superadmin" -> 4
      [] OTHER               -> 0

has_permission_strict(role, required_role) ==
    role_hierarchy(role) > role_hierarchy(required_role)

has_permission(role, required_role) ==
    role_hierarchy(role) >= role_hierarchy(required_role)

(* check_teacher_or_admin: TRUE when the caller may create groups *)
check_teacher_or_admin(current_user) == has_permission(current_user.role, "teacher")

(* select(Group).where(Group.uid == group_id): the rows found, at most one *)
SelectGroup(group_id) == {g \in groups : g.uid = group_id}

(* The rows of the association table for one group, as user ids. *)
StoredMembers(group_id) == {m[2] : m \in {x \in group_members : x[1] = group_id}}

is_owner(group, user_id) == group.owner_id = user_id

(* Group.is_member over the loaded members collection *)
is_member(members, user_id) == \E m \in members : m = user_id

check_group_ownership_owner_first(found, current_user) ==
    IF \A g \in found : ~is_owner(g, current_user.id) THEN "403_owner"
    ELSE IF found = {} THEN "404_group"
    ELSE "ok"

(* check_group_ownership: 404 when no row was found, 403 when the caller   *)
(* is not the owner of the row found.                                      *)
check_group_ownership(found, current_user) ==
    IF found = {} THEN "404_group"
    ELSE IF \E g \in found : ~is_owner(g, current_user.id) THEN "403_owner"
    ELSE "ok"

(* A group request's record.  group: the rows the ownership check loaded;  *)
(* members: the members collection once loaded; loaded: whether it is.     *)
GroupReq(op, pc, current_user, group_uid, user_id, name) ==
    [op |-> op, pc |-> pc, current_user |-> current_user,
     group_uid |-> group_uid, user_id |-> user_id, name |-> name,
     group |-> {}, members |-> {}, result |-> {}, resp |-> None, wrote |-> FALSE]

(* Requests in flight that will generate a group uid when they commit. *)
PendingCreates == Cardinality({q \in Reqs : req[q].pc = "create_commit"})

(* create_group: the role check *)
CreateGroupCheck(p) ==
    /\ req[p].pc = "idle"
    /\ nextGid + PendingCreates < MaxGroups
    /\ \E u \in get_current_user, name \in GroupNames :
         LET r == GroupReq("create_group", "create_commit", u, 0, 0, name)
         IN IF ~check_teacher_or_admin(u)
            THEN Finish(p, r, "403_role")
            ELSE req' = [req EXCEPT ![p] = r]
    /\ UNCHANGED <<userVars, groupVars, wordVars>>

(* db.add(group); commit: members_count takes the column default 0 and     *)
(* the association table gets no row.                                      *)
CreateGroupCommit(p) ==
    /\ req[p].pc = "create_commit"
    /\ LET uid == nextGid + 1
       IN /\ groups' = groups \cup
                 { [uid |-> uid, name |-> req[p].name,
                    owner_id |-> req[p].current_user.id, members_count |-> 0] }
          /\ nextGid' = uid
          /\ Finish(p, [req[p] EXCEPT !.group_uid = uid, !.wrote = TRUE], "201")
    /\ UNCHANGED <<userVars, group_members, wordVars>>

(* The first statement of every owner-only operation. *)
OwnershipCheck(p, r, next_pc) ==
    LET found  == SelectGroup(r.group_uid)
        answer == check_group_ownership(found, r.current_user)
    IN IF answer = "ok"
       THEN req' = [req EXCEPT ![p] = [r EXCEPT !.group = found, !.pc = next_pc]]
       ELSE Finish(p, r, answer)

UpdateGroupCheck(p) ==
    /\ req[p].pc = "idle"
    /\ \E u \in get_current_user, gid \in 1..MaxGroups, name \in GroupNames \cup {None} :
         OwnershipCheck(p, GroupReq("update_group", "", u, gid, 0, name), "update_commit")
    /\ UNCHANGED <<userVars, groupVars, wordVars>>

UpdatedFieldsWithOwner(g, name, current_user) ==
    [g EXCEPT !.name = name, !.owner_id = 0]

(* update_group assigns name (and description) when given, nothing else.   *)
UpdatedFields(g, name, current_user) ==
    IF name = None THEN g ELSE [g EXCEPT !.name = name]

(* if group_in.name is not None: group.name = ...; commit; refresh.  A row *)
(* deleted in the meantime makes the flush or the refresh raise.           *)
UpdateGroupCommit(p) ==
    /\ req[p].pc = "update_commit"
    /\ LET now == SelectGroup(req[p].group_uid)
       IN IF now = {}
          THEN /\ Finish(p, req[p], "500")
               /\ UNCHANGED groups
          ELSE /\ groups' = (groups \ now) \cup
                     { UpdatedFields(g, req[p].name, req[p].current_user) : g \in now }
               /\ Finish(p, [req[p] EXCEPT !.wrote = TRUE], "200")
    /\ UNCHANGED <<userVars, group_members, nextGid, wordVars>>

DeleteGroupCheck(p) ==
    /\ req[p].pc = "idle"
    /\ \E u \in get_current_user, gid \in 1..MaxGroups :
         OwnershipCheck(p, GroupReq("delete_group", "", u, gid, 0, None), "delete_commit")
    /\ UNCHANGED <<userVars, groupVars, wordVars>>

KeepAssociations(rows, group_uid) == rows

(* The association rows left once those of one group are deleted. *)
DeleteAssociations(rows, group_uid) == {m \in rows : m[1] # group_uid}

(* db.delete(group); commit: the unit of work deletes the group's rows of  *)
(* the association table, then the group row.                              *)
DeleteGroupCommit(p) ==
    /\ req[p].pc = "delete_commit"
    /\ LET now == SelectGroup(req[p].group_uid)
       IN IF now = {}
          THEN /\ Finish(p, req[p], "500")
               /\ UNCHANGED <<groups, group_members>>
          ELSE /\ groups' = groups \ now
               /\ group_members' = DeleteAssociations(group_members, req[p].group_uid)
               /\ Finish(p, [req[p] EXCEPT !.wrote = TRUE], "204")
    /\ UNCHANGED <<userVars, nextGid, wordVars>>


AddMemberCheck(p) ==
    /\ req[p].pc = "idle"
    /\ \E u \in get_current_user, gid \in 1..MaxGroups,
          target \in {x.id : x \in users} \cup UnknownUserIds :
         OwnershipCheck(p, GroupReq("add_member", "", u, gid, target, None), "find_user")
    /\ UNCHANGED <<userVars, groupVars, wordVars>>

(* select(Users).where(Users.id == member_in.user_id) *)
AddMemberFindUser(p) ==
    /\ req[p].pc = "find_user"
    /\ IF \E x \in users : x.id = req[p].user_id
       THEN req' = [req EXCEPT ![p].pc = "add_load_members"]
       ELSE Finish(p, req[p], "404_user")
    /\ UNCHANGED <<userVars, groupVars, wordVars>>

(* group.is_member(...) reads group.members, which the ownership check's   *)
(* query did not load: the relationship (models.py:37) is lazy, so the     *)
(* read is a query of the association table made on attribute access.      *)
(* Under the AsyncSession that implicit query either completes or raises   *)
(* (the request then ends in a 500 and get_db rolls back).                 *)
AddMemberLoadMembers(p) ==
    /\ req[p].pc = "add_load_members"
    /\ \/ Finish(p, req[p], "500")
       \/ LET members == StoredMembers(req[p].group_uid)
          IN IF is_member(members, req[p].user_id)
             THEN Finish(p, [req[p] EXCEPT !.members = members], "400_member")
             ELSE req' = [req EXCEPT ![p].members = members,
                                     ![p].pc = "add_commit"]
    /\ UNCHANGED <<userVars, groupVars, wordVars>>

(* group.members.append(user) *)
AppendMember(members, user_id) == members \cup {user_id}

(* group.members_count = len(group.members) *)
len_members(members) == Cardinality(members)

(* add_member: group.members_count = len(group.members), after the append *)
CountAfterAppend(members, user_id) == len_members(AppendMember(members, user_id))

(* The unit of work writes members_count only when the value differs from  *)
(* the one the row was loaded with.                                        *)
WriteCount(p, count) ==
    { IF g.uid = req[p].group_uid /\ \E l \in req[p].group : l.members_count # count
      THEN [g EXCEPT !.members_count = count] ELSE g : g \in groups }

(* commit: INSERT the association row, UPDATE groups.members_count.  The   *)
(* association table's key is (group_id, user_id) with a foreign key to    *)
(* groups: a row already there, or a group gone, is an IntegrityError.     *)
AddMemberCommit(p) ==
    /\ req[p].pc = "add_commit"
    /\ LET row == <<req[p].group_uid, req[p].user_id>>
           new_members == AppendMember(req[p].members, req[p].user_id)
       IN IF SelectGroup(req[p].group_uid) = {} \/ row \in group_members
          THEN /\ Finish(p, req[p], "500")
               /\ UNCHANGED <<groups, group_members>>
          ELSE /\ group_members' = group_members \cup {row}
               /\ groups' = WriteCount(p, CountAfterAppend(req[p].members, req[p].user_id))
               /\ Finish(p, [req[p] EXCEPT !.members = new_members,
                                           !.wrote = TRUE], "200")
    /\ UNCHANGED <<userVars, nextGid, wordVars>>

RemoveMemberCheck(p) ==
    /\ req[p].pc = "idle"
    /\ \E u \in get_current_user, gid \in 1..MaxGroups,
          target \in {x.id : x \in users} \cup UnknownUserIds :
         OwnershipCheck(p, GroupReq("remove_member", "", u, gid, target, None),
                        "remove_load_members")
    /\ UNCHANGED <<userVars, groupVars, wordVars>>

(* if not group.is_member(member_in.user_id): 404 *)
RemoveMemberLoadMembers(p) ==
    /\ req[p].pc = "remove_load_members"
    /\ \/ Finish(p, req[p], "500")
       \/ LET members == StoredMembers(req[p].group_uid)
          IN IF ~is_member(members, req[p].user_id)
             THEN Finish(p, [req[p] EXCEPT !.members = members], "404_member")
             ELSE req' = [req EXCEPT ![p].members = members,
                                     ![p].pc = "remove_commit"]
    /\ UNCHANGED <<userVars, groupVars, wordVars>>

(* group.members = [m for m in group.members if m.id != member_in.user_id] *)
FilterMembers(members, user_id) == {m \in members : m # user_id}

CountBeforeRemove(members, user_id) == len_members(members)

(* remove_member: group.members_count = len(group.members), after the      *)
(* collection was replaced                                                 *)
CountAfterRemove(members, user_id) == len_members(FilterMembers(members, user_id))

(* commit: DELETE the association rows of the members dropped from the     *)
(* collection, UPDATE groups.members_count.  A row to delete that is no    *)
(* longer there makes the flush raise.                                     *)
RemoveMemberCommit(p) ==
    /\ req[p].pc = "remove_commit"
    /\ LET new_members == FilterMembers(req[p].members, req[p].user_id)
           dropped == {<<req[p].group_uid, m>> : m \in req[p].members \ new_members}
       IN IF SelectGroup(req[p].group_uid) = {} \/ ~(dropped \subseteq group_members)
          THEN /\ Finish(p, req[p], "500")
               /\ UNCHANGED <<groups, group_members>>
          ELSE /\ group_members' = group_members \ dropped
               /\ groups' = WriteCount(p, CountAfterRemove(req[p].members, req[p].user_id))
               /\ Finish(p, [req[p] EXCEPT !.members = new_members,
                                           !.wrote = TRUE], "200")
    /\ UNCHANGED <<userVars, nextGid, wordVars>>

check_group_access_owner_only(found, members, current_user) ==
    IF found = {} THEN "404_group"
    ELSE IF \E g \in found : ~is_owner(g, current_user.id) THEN "403_access"
    ELSE "ok"

(* check_group_access: 404 when no row was found, 403 when the caller is   *)
(* neither the owner nor in the loaded members collection.                 *)
check_group_access(found, members, current_user) ==
    IF found = {} THEN "404_group"
    ELSE IF \E g \in found :
              ~(is_owner(g, current_user.id) \/ is_member(members, current_user.id))
         THEN "403_access"
    ELSE "ok"

(* get_group, check_group_access: select(Group).where(Group.uid == ...) *)
GetGroupSelect(p) ==
    /\ req[p].pc = "idle"
    /\ \E u \in get_current_user, gid \in 1..MaxGroups :
         LET r == GroupReq("get_group", "get_load_members", u, gid, 0, None)
             found == SelectGroup(gid)
         IN IF found = {}
            THEN Finish(p, r, check_group_access(found, {}, u))
            ELSE req' = [req EXCEPT ![p] = [r EXCEPT !.group = found]]
    /\ UNCHANGED <<userVars, groupVars, wordVars>>

(* selectinload(Group.members): the second query of the same execute, then *)
(* the owner-or-member test.                                               *)
GetGroupLoadMembers(p) ==
    /\ req[p].pc = "get_load_members"
    /\ LET members == StoredMembers(req[p].group_uid)
           answer == check_group_access(req[p].group, members, req[p].current_user)
       IN IF answer = "ok"
          THEN req' = [req EXCEPT ![p].members = members, ![p].pc = "get_members_info"]
          ELSE Finish(p, [req[p] EXCEPT !.members = members], answer)
    /\ UNCHANGED <<userVars, groupVars, wordVars>>

(* select(Users).where(Users.id.in_([member.id for member in group.members])) *)
GetGroupMembersInfo(p) ==
    /\ req[p].pc = "get_members_info"
    /\ Finish(p, [req[p] EXCEPT !.result = {x \in users : x.id \in req[p].members}], "200")
    /\ UNCHANGED <<userVars, groupVars, wordVars>>

GroupStep(p) ==
    \/ GetGroupSelect(p)
    \/ GetGroupLoadMembers(p)
    \/ GetGroupMembersInfo(p)
    \/ CreateGroupCheck(p)
    \/ CreateGroupCommit(p)
    \/ UpdateGroupCheck(p)
    \/ UpdateGroupCommit(p)
    \/ DeleteGroupCheck(p)
    \/ DeleteGroupCommit(p)
    \/ AddMemberCheck(p)
    \/ AddMemberFindUser(p)
    \/ AddMemberLoadMembers(p)
    \/ AddMemberCommit(p)
    \/ RemoveMemberCheck(p)
    \/ RemoveMemberLoadMembers(p)
    \/ RemoveMemberCommit(p)

(* The users the group operations run against: three stored users, one     *)
(* per role that registration offers below admin, and an admin or a        *)
(* superadmin (a role the store's enum has, user/models.py:16-20).         *)
SeededUsers(top_role) ==
    { [id |-> 1, email |-> "e1", user_name |-> <<"a","b","c">>, role |-> "student"],
      [id |-> 2, email |-> "e2", user_name |-> <<"b","c","d">>, role |-> "teacher"],
      [id |-> 3, email |-> "e3", user_name |-> <<"c","_","1">>, role |-> top_role] }

InitSeeded ==
    /\ \E top_role \in {"admin", "superadmin"} : users = SeededUsers(top_role)
    /\ groups = {}
    /\ group_members = {}
    /\ nextGid = 0
    /\ categories = {}
    /\ words = {}
    /\ nextCid = 0
    /\ nextWid = 0
    /\ req = [p \in Reqs |-> Idle]

(* Requests run to completion, one after the other: a single slot. *)
NextGroupsSeq == GroupStep("r1") \/ Return("r1")

SpecGroupsSeq == InitSeeded /\ [][NextGroupsSeq]_vars

(* One group, created by the teacher and still without members, and two    *)
(* membership requests at a time on it.                                    *)
InitOneGroup ==
    /\ users = SeededUsers("admin")
    /\ groups = { [uid |-> 1, name |-> "Math101", owner_id |-> 2, members_count |-> 0] }
    /\ group_members = {}
    /\ nextGid = 1
    /\ categories = {}
    /\ words = {}
    /\ nextCid = 0
    /\ nextWid = 0
    /\ req = [p \in Reqs |-> Idle]

MemberStep(p) ==
    \/ AddMemberCheck(p)
    \/ AddMemberFindUser(p)
    \/ AddMemberLoadMembers(p)
    \/ AddMemberCommit(p)
    \/ RemoveMemberCheck(p)
    \/ RemoveMemberLoadMembers(p)
    \/ RemoveMemberCommit(p)

NextMembers == \E p \in Reqs : MemberStep(p) \/ Return(p)

SpecMembers == InitOneGroup /\ [][NextMembers]_vars

(* Requests interleave statement by statement. *)
NextGroups == \E p \in Reqs : GroupStep(p) \/ Return(p)

SpecGroups == InitSeeded /\ [][NextGroups]_vars


-----------------------------------------------------------------------------
(* Dictionary: words/models.py, words/routers.py                           *)

MaxCats == 1
MaxWords == 2

FallbackName == "Gemini Generated"

CategoryNames == {FallbackName, "Animals"}

(* Search terms, and the English terms create_word is given. *)
Queries == { <<"a">>, <<"z">> }
NewEnglish == { <<"A", "b">> }

(* Words.english.ilike(pattern): SQL LIKE without regard to case, where %  *)
(* matches any run of characters and _ any one character.                  *)
RECURSIVE Like(_, _)
Like(pat, str) ==
    IF pat = <<>> THEN str = <<>>
    ELSE IF Head(pat) = "%"
         THEN Like(Tail(pat), str) \/ (str # <<>> /\ Like(pat, Tail(str)))
    ELSE /\ str # <<>>
         /\ Head(pat) = "_" \/ LowerChar(Head(pat)) = LowerChar(Head(str))
         /\ Like(Tail(pat), Tail(str))

(* f"%{q}%" *)
SearchPattern(q) == <<"%">> \o q \o <<"%">>

(* select(Words).where(Words.english.ilike(f"%{q}%")) *)
SelectWordsLike(q) == {w \in words : Like(SearchPattern(q), w.english)}

SelectCategory(uid) == {c \in categories : c.uid = uid}

SelectCategoryNamed(name) == {c \in categories : c.name = name}

(* What the External Definition Provider can answer to one call:           *)
(*   transport_error  the call raises (timeout, connection failure)        *)
(*   status_error     a response whose status is not 200                   *)
(*   bad_text         200, and the completion text is missing from the     *)
(*                    body or is not JSON                                  *)
(*   no_uzbek         200, a JSON object without the key uzbek             *)
(*   no_definition    200, a JSON object without the key definition        *)
(*   complete         200, a JSON object with both keys                    *)
ProviderAnswers ==
    {"transport_error", "status_error", "bad_text",
     "no_uzbek", "no_definition", "complete"}

(* parsed.get("uzbek"), parsed.get("definition") *)
ParsedUzbek(answer) == IF answer = "no_uzbek" THEN None ELSE "uz"
ParsedDefinition(answer) == IF answer = "no_definition" THEN None ELSE "def"

WordReq(op, pc, q, definition, category_uid, name) ==
    [op |-> op, pc |-> pc, q |-> q, definition |-> definition,
     category_uid |-> category_uid, name |-> name,
     word_uid |-> 0, uzbek |-> None,
     matched |-> {}, calls |-> 0, answer |-> None, tx |-> FALSE,
     result |-> {}, resp |-> None, wrote |-> FALSE]

(* create_category: db.add(category); commit; an IntegrityError on the     *)
(* unique name becomes a 400.                                              *)
CreateCategory(p) ==
    /\ req[p].pc = "idle"
    /\ nextCid < MaxCats
    /\ \E name \in CategoryNames :
         LET r == WordReq("create_category", "", <<>>, None, nextCid + 1, name)
         IN IF SelectCategoryNamed(name) # {}
            THEN /\ Finish(p, r, "400_exists")
                 /\ UNCHANGED <<categories, nextCid>>
            ELSE /\ categories' = categories \cup {[uid |-> nextCid + 1, name |-> name]}
                 /\ nextCid' = nextCid + 1
                 /\ Finish(p, [r EXCEPT !.wrote = TRUE], "201")
    /\ UNCHANGED <<userVars, groupVars, words, nextWid>>

(* delete_category: the lookup *)
DeleteCategoryFind(p) ==
    /\ req[p].pc = "idle"
    /\ \E uid \in 1..MaxCats :
         LET r == WordReq("delete_category", "delete_category", <<>>, None, uid, None)
         IN IF SelectCategory(uid) = {}
            THEN Finish(p, r, "404_category")
            ELSE req' = [req EXCEPT ![p] = [r EXCEPT !.tx = TRUE]]
    /\ UNCHANGED <<userVars, groupVars, wordVars>>

(* db.delete(category); commit.  words.category_uid is a NOT NULL foreign  *)
(* key with no cascade: while a word refers to the category the flush      *)
(* raises, and so does the delete of a row that is already gone.           *)
DeleteCategoryCommit(p) ==
    /\ req[p].pc = "delete_category"
    /\ IF \/ SelectCategory(req[p].category_uid) = {}
          \/ \E w \in words : w.category_uid = req[p].category_uid
       THEN /\ Finish(p, [req[p] EXCEPT !.tx = FALSE], "500")
            /\ UNCHANGED categories
       ELSE /\ categories' = categories \ SelectCategory(req[p].category_uid)
            /\ Finish(p, [req[p] EXCEPT !.tx = FALSE, !.wrote = TRUE], "204")
    /\ UNCHANGED <<userVars, groupVars, words, nextCid, nextWid>>

(* create_word: the category lookup *)
CreateWordFind(p) ==
    /\ req[p].pc = "idle"
    /\ \E english \in NewEnglish, definition \in {"def"}, uid \in 1..MaxCats :
         LET r == WordReq("create_word", "create_word", english, definition, uid, None)
         IN IF SelectCategory(uid) = {}
            THEN Finish(p, r, "404_category")
            ELSE req' = [req EXCEPT ![p] = [r EXCEPT !.tx = TRUE]]
    /\ UNCHANGED <<userVars, groupVars, wordVars>>

WordInsertRejectedWithoutForeignKey(uzbek, category_uid) == uzbek = None

(* The constraints of table words on an insert: uzbek NOT NULL, and        *)
(* category_uid a foreign key to categories.                              *)
WordInsertRejected(uzbek, category_uid) ==
    uzbek = None \/ SelectCategory(category_uid) = {}

(* db.add(word); commit *)
CreateWordCommit(p) ==
    /\ req[p].pc = "create_word"
    /\ IF WordInsertRejected("uz", req[p].category_uid)
       THEN /\ Finish(p, [req[p] EXCEPT !.tx = FALSE], "500")
            /\ UNCHANGED <<words, nextWid>>
       ELSE /\ nextWid < MaxWords
            /\ LET w == [uid |-> nextWid + 1, english |-> req[p].q, uzbek |-> "uz",
                         definition |-> req[p].definition,
                         category_uid |-> req[p].category_uid]
               IN /\ words' = words \cup {w}
                  /\ nextWid' = nextWid + 1
                  /\ Finish(p, [req[p] EXCEPT !.tx = FALSE, !.wrote = TRUE,
                                              !.result = {w}], "201")
    /\ UNCHANGED <<userVars, groupVars, categories, nextCid>>

(* Category ids that no stored category has. *)
UnknownCategoryIds == {-1}

SelectWord(uid) == {w \in words : w.uid = uid}

SessionExitCommitting(raised, stored, flushed) == flushed

(* get_db: the session commits when the handler returns and rolls back     *)
(* when it raises, so what the handler flushed is kept or discarded.       *)
SessionExit(raised, stored, flushed) == IF raised THEN stored ELSE flushed

(* update_word: the assignments to the loaded word, each made only when    *)
(* the request carries the field (category_uid 0: not carried).            *)
AssignWordFields(w, uzbek, category_uid) ==
    [w EXCEPT !.uzbek = IF uzbek = None THEN @ ELSE uzbek,
              !.category_uid = IF category_uid = 0 THEN @ ELSE category_uid]

(* The table words with the row of uid replaced by what was assigned. *)
WordsWith(uid, uzbek, category_uid) ==
    {IF w.uid = uid THEN AssignWordFields(w, uzbek, category_uid) ELSE w : w \in words}

(* update_word: the word lookup, then the assignments of uzbek, english    *)
(* and definition to the loaded object.                                    *)
UpdateWordFind(p) ==
    /\ req[p].pc = "idle"
    /\ \E uid \in 1..MaxWords, uzbek \in {None, "uz2"},
          category_uid \in (0..MaxCats) \cup UnknownCategoryIds :
         LET r == [WordReq("update_word", "update_commit", <<>>, None, category_uid, None)
                     EXCEPT !.word_uid = uid, !.uzbek = uzbek]
         IN IF SelectWord(uid) = {}
            THEN Finish(p, r, "404_word")
            ELSE req' = [req EXCEPT ![p] =
                           [r EXCEPT !.tx = TRUE,
                                     !.pc = IF category_uid = 0 THEN "update_commit"
                                            ELSE "update_find_category"]]
    /\ UNCHANGED <<userVars, groupVars, wordVars>>

(* if word_in.category_uid is not None: the category query, before which   *)
(* the session flushes the fields assigned so far into its transaction; a  *)
(* category not found raises 404 and the session is rolled back.           *)
UpdateWordFindCategory(p) ==
    /\ req[p].pc = "update_find_category"
    /\ IF SelectCategory(req[p].category_uid) = {}
       THEN /\ words' = SessionExit(TRUE, words, WordsWith(req[p].word_uid, req[p].uzbek, 0))
            /\ Finish(p, [req[p] EXCEPT !.tx = FALSE, !.wrote = (words' # words)],
                      "404_category")
       ELSE /\ req' = [req EXCEPT ![p].pc = "update_commit"]
            /\ UNCHANGED words
    /\ UNCHANGED <<userVars, groupVars, categories, nextCid, nextWid>>

(* commit; refresh; re-select.  The new category_uid is a foreign key: a   *)
(* category deleted since the lookup makes the commit raise.               *)
UpdateWordCommit(p) ==
    /\ req[p].pc = "update_commit"
    /\ LET raised == \/ SelectWord(req[p].word_uid) = {}
                     \/ /\ req[p].category_uid # 0
                        /\ SelectCategory(req[p].category_uid) = {}
           flushed == WordsWith(req[p].word_uid, req[p].uzbek, req[p].category_uid)
       IN /\ words' = SessionExit(raised, words, flushed)
          /\ IF raised
             THEN Finish(p, [req[p] EXCEPT !.tx = FALSE], "500")
             ELSE Finish(p, [req[p] EXCEPT !.tx = FALSE, !.wrote = (words' # words),
                                          !.result = {w \in words' : w.uid = req[p].word_uid}],
                          "200")
    /\ UNCHANGED <<userVars, groupVars, categories, nextCid, nextWid>>

HasLocalMatchInverted(matched) == matched = {}

(* if words: return words *)
HasLocalMatch(matched) == matched # {}

(* search_words: the local query.  With a match the handler returns the    *)
(* rows; without one it posts the prompt to the provider and waits, the    *)
(* session's transaction still open from the query.                        *)
SearchQuery(p) ==
    /\ req[p].pc = "idle"
    /\ \E q \in Queries :
         LET r == [WordReq("search_words", "await_provider", q, None, 0, None)
                     EXCEPT !.matched = SelectWordsLike(q)]
         IN IF HasLocalMatch(r.matched)
            THEN Finish(p, [r EXCEPT !.result = r.matched], "200")
            ELSE req' = [req EXCEPT ![p] = [r EXCEPT !.calls = 1, !.tx = TRUE]]
    /\ UNCHANGED <<userVars, groupVars, wordVars>>

(* The provider's answer arrives, or the call raises.                      *)
SearchProviderAnswer(p) ==
    /\ req[p].pc = "await_provider"
    /\ \E answer \in ProviderAnswers :
         LET r == [req[p] EXCEPT !.answer = answer]
         IN CASE answer = "transport_error" -> Finish(p, [r EXCEPT !.tx = FALSE], "500")
              [] answer = "status_error"    -> Finish(p, [r EXCEPT !.tx = FALSE], "502")
              [] answer = "bad_text"        ->
                     Finish(p, [r EXCEPT !.tx = FALSE], "500_invalid_format")
              [] OTHER -> req' = [req EXCEPT ![p] = [r EXCEPT !.pc = "get_category"]]
    /\ UNCHANGED <<userVars, groupVars, wordVars>>

(* select(Category).where(Category.name == "Gemini Generated") *)
SearchGetCategory(p) ==
    /\ req[p].pc = "get_category"
    /\ LET found == SelectCategoryNamed(FallbackName)
       IN IF found = {}
          THEN req' = [req EXCEPT ![p].pc = "create_category"]
          ELSE req' = [req EXCEPT ![p].pc = "insert_word",
                                  ![p].category_uid = (CHOOSE c \in found : TRUE).uid]
    /\ UNCHANGED <<userVars, groupVars, wordVars>>

(* category = Category(name="Gemini Generated"); db.add; commit: a commit  *)
(* of its own, before the word is built.  The unique name makes the        *)
(* second of two such inserts raise.                                       *)
SearchCreateCategory(p) ==
    /\ req[p].pc = "create_category"
    /\ IF SelectCategoryNamed(FallbackName) # {}
       THEN /\ Finish(p, [req[p] EXCEPT !.tx = FALSE], "500")
            /\ UNCHANGED <<categories, nextCid>>
       ELSE /\ nextCid < MaxCats
            /\ categories' = categories \cup {[uid |-> nextCid + 1, name |-> FallbackName]}
            /\ nextCid' = nextCid + 1
            /\ req' = [req EXCEPT ![p].pc = "insert_word",
                                  ![p].category_uid = nextCid + 1,
                                  ![p].tx = FALSE,
                                  ![p].wrote = TRUE]
    /\ UNCHANGED <<userVars, groupVars, words, nextWid>>

(* new_word = Words(english=q, uzbek=parsed.get("uzbek"), ...); db.add;    *)
(* commit                                                                  *)
SearchInsertWord(p) ==
    /\ req[p].pc = "insert_word"
    /\ IF WordInsertRejected(ParsedUzbek(req[p].answer), req[p].category_uid)
       THEN /\ Finish(p, [req[p] EXCEPT !.tx = FALSE], "500")
            /\ UNCHANGED <<words, nextWid>>
       ELSE /\ nextWid < MaxWords
            /\ LET w == [uid |-> nextWid + 1, english |-> req[p].q,
                         uzbek |-> ParsedUzbek(req[p].answer),
                         definition |-> ParsedDefinition(req[p].answer),
                         category_uid |-> req[p].category_uid]
               IN /\ words' = words \cup {w}
                  /\ nextWid' = nextWid + 1
                  /\ Finish(p, [req[p] EXCEPT !.tx = FALSE, !.wrote = TRUE,
                                              !.result = {w}], "200")
    /\ UNCHANGED <<userVars, groupVars, categories, nextCid>>

WordStep(p) ==
    \/ CreateCategory(p)
    \/ DeleteCategoryFind(p)
    \/ DeleteCategoryCommit(p)
    \/ CreateWordFind(p)
    \/ CreateWordCommit(p)
    \/ SearchQuery(p)
    \/ SearchProviderAnswer(p)
    \/ SearchGetCategory(p)
    \/ SearchCreateCategory(p)
    \/ SearchInsertWord(p)

NextWords == \E p \in Reqs : WordStep(p) \/ Return(p)


InitEmpty ==
    /\ users = {}
    /\ groups = {}
    /\ group_members = {}
    /\ nextGid = 0
    /\ categories = {}
    /\ words = {}
    /\ nextCid = 0
    /\ nextWid = 0
    /\ req = [p \in Reqs |-> Idle]

NextUsers == \E p \in Reqs : RegisterUser(p) \/ Return(p)

SpecUsers == InitEmpty /\ [][NextUsers]_vars
SpecWords == InitEmpty /\ [][NextWords]_vars

(* The handlers that write categories and words on a client's request. *)
WordWriteStep(p) ==
    \/ CreateCategory(p)
    \/ DeleteCategoryFind(p)
    \/ DeleteCategoryCommit(p)
    \/ CreateWordFind(p)
    \/ CreateWordCommit(p)
    \/ UpdateWordFind(p)
    \/ UpdateWordFindCategory(p)
    \/ UpdateWordCommit(p)

NextWordWrites == \E p \in Reqs : WordWriteStep(p) \/ Return(p)

SpecWordWrites == InitEmpty /\ [][NextWordWrites]_vars

(* Two searches at a time, and nothing else. *)
SearchStep(p) ==
    \/ SearchQuery(p)
    \/ SearchProviderAnswer(p)
    \/ SearchGetCategory(p)
    \/ SearchCreateCategory(p)
    \/ SearchInsertWord(p)

NextSearch == \E p \in Reqs : SearchStep(p) \/ Return(p)

SpecSearch == InitEmpty /\ [][NextSearch]_vars

(* The routers the application mounts: users, categories and words. The    *)
(* group router is defined but not included.                               *)
Next == \E p \in Reqs : RegisterUser(p) \/ WordStep(p) \/ Return(p)

Spec == InitEmpty /\ [][Next]_vars

-----------------------------------------------------------------------------
(* Properties                                                              *)

(* Request p takes its first step, as operation op. *)
Starts(p, op) ==
    /\ req[p].pc = "idle"
    /\ req'[p].pc # "idle"
    /\ req'[p].op = op

(* Request p ends in this step. *)
Ends(p) == req[p].pc # "done" /\ req'[p].pc = "done"

OwnerOnlyOps == {"update_group", "delete_group", "add_member", "remove_member"}

(* C1: for every group, members_count equals the number of users in the    *)
(* group's member set after any sequence of add_member and remove_member   *)
(* requests run one after the other; a successful add_member raises the    *)
(* count it found by one and a successful remove_member lowers it by one,  *)
(* so an add followed by a remove of the same user restores the count.     *)
C1_CountIsCardinality ==
    /\ \A g \in groups : g.members_count = Cardinality(StoredMembers(g.uid))
    /\ \A p \in Reqs :
         (IsDone(p) /\ req[p].op \in {"add_member", "remove_member"}
                    /\ req[p].resp = "200")
         => \A g \in SelectGroup(req[p].group_uid), l \in req[p].group :
              g.members_count = l.members_count
                                + (IF req[p].op = "add_member" THEN 1 ELSE -1)

(* A remove_member has just succeeded and brought the group back to the    *)
(* count it had before the add.                                            *)
C1_Witness ==
    \E p \in Reqs :
        /\ IsDone(p) /\ req[p].op = "remove_member" /\ req[p].resp = "200"
        /\ \E g \in SelectGroup(req[p].group_uid) :
             g.members_count = 0 /\ StoredMembers(g.uid) = {}

(* C2 as stated: once the store holds 3 users, every register_user request *)
(* is rejected with the capacity error and adds no user, whatever its      *)
(* email, username, role or password are.                                  *)
C2_Original ==
    [][\A p \in Reqs :
         (Starts(p, "register_user") /\ Cardinality(users) >= MaxUsers)
         => /\ req'[p].pc = "done"
            /\ req'[p].resp = "400_closed"
            /\ users' = users]_vars

(* C2 amended: once the store holds 3 users, every register_user request   *)
(* adds no user; one whose body fails validation is answered 422 before    *)
(* the handler runs, and every other one is rejected with the capacity     *)
(* error, before the email and username lookups.                           *)
C2_CapacityRejects ==
    [][\A p \in Reqs :
         (Starts(p, "register_user") /\ Cardinality(users) >= MaxUsers)
         => /\ req'[p].pc = "done"
            /\ req'[p].resp = (IF UsernameAccepted(req'[p].user_name)
                               THEN "400_closed" ELSE "422")
            /\ users' = users]_vars

(* A request was turned down for capacity although its email is already    *)
(* stored: the ceiling was checked first.                                  *)
C2_Witness ==
    \E p \in Reqs :
        /\ IsDone(p) /\ req[p].op = "register_user"
        /\ req[p].resp = "400_closed"
        /\ req[p].user_count >= MaxUsers
        /\ \E u \in users : u.email = req[p].email

ConflictResponses == {"400_email", "400_username"}

(* C3: a registration that passed the ceiling and stored no user, which    *)
(* only a duplicate email or username causes, ends in a Conflict-class     *)
(* client error, never in an internal error.                               *)
C3_DuplicateIsConflict ==
    \A p \in Reqs :
        (/\ IsDone(p) /\ req[p].op = "register_user"
         /\ req[p].user_count >= 0 /\ ~CapacityReached(req[p].user_count)
         /\ ~req[p].wrote)
        => req[p].resp \in ConflictResponses

(* C4: a search whose local query matches returns exactly the rows         *)
(* matched, calls the provider zero times and creates no category and no   *)
(* word.                                                                   *)
C4_HitStaysLocal ==
    [][\A p \in Reqs :
         (Starts(p, "search_words") /\ SelectWordsLike(req'[p].q) # {})
         => /\ req'[p].pc = "done"
            /\ req'[p].resp = "200"
            /\ req'[p].result = SelectWordsLike(req'[p].q)
            /\ req'[p].calls = 0
            /\ UNCHANGED wordVars]_vars

(* A search returned a stored word that differs from the term in case and  *)
(* length, without a provider call.                                        *)
C4_Witness ==
    \E p \in Reqs :
        /\ IsDone(p) /\ req[p].op = "search_words"
        /\ req[p].resp = "200" /\ req[p].calls = 0
        /\ \E w \in req[p].result : w.english # req[p].q

(* C5: a search without a local match calls the provider exactly once      *)
(* and, when the provider answers with the complete JSON object, has       *)
(* added exactly one word, under the fallback category, and returns it.    *)
C5_MissAddsOneWord ==
    \A p \in Reqs :
        (IsDone(p) /\ req[p].op = "search_words" /\ req[p].matched = {})
        => /\ req[p].calls = 1
           /\ req[p].answer = "complete"
              => /\ req[p].resp = "200"
                 /\ Cardinality(req[p].result) = 1
                 /\ \A w \in req[p].result :
                      /\ w.english = req[p].q
                      /\ \E c \in SelectCategoryNamed(FallbackName) :
                           c.uid = w.category_uid

(* C6: when the provider call raises or answers with a status other than   *)
(* 200, the search fails with 502, after one call, and creates nothing.    *)
C6_ProviderFailureIs502 ==
    \A p \in Reqs :
        (/\ IsDone(p) /\ req[p].op = "search_words"
         /\ req[p].answer \in {"transport_error", "status_error"})
        => /\ req[p].resp = "502"
           /\ req[p].calls = 1
           /\ ~req[p].wrote

(* C7: when the completion text is not JSON, or the object lacks uzbek or  *)
(* definition, the search fails with the malformed-response 500 and        *)
(* persists no word.                                                       *)
C7_MalformedIsRejected ==
    \A p \in Reqs :
        (/\ IsDone(p) /\ req[p].op = "search_words"
         /\ req[p].answer \in {"bad_text", "no_uzbek", "no_definition"})
        => /\ req[p].resp = "500_invalid_format"
           /\ req[p].result = {}

SuccessResponses == {"200", "201", "204"}

(* C8: a request that ends in an error has changed nothing in the store.   *)
C8_ErrorLeavesStore ==
    \A p \in Reqs :
        (IsDone(p) /\ req[p].resp \notin SuccessResponses) => ~req[p].wrote

(* C9: an owner-only group operation resolves the group first: 404 when    *)
(* the id names no group, whoever calls; 403 only when the group exists    *)
(* and the caller is not its owner; and neither changes a group, a         *)
(* membership or a count.                                                  *)
C9_ResolveThenAuthorize ==
    [][\A p \in Reqs :
         (req[p].pc = "idle" /\ req'[p].pc # "idle" /\ req'[p].op \in OwnerOnlyOps)
         => LET found == SelectGroup(req'[p].group_uid)
                caller == req'[p].current_user.id
            IN /\ found = {}
                  => req'[p].pc = "done" /\ req'[p].resp = "404_group"
               /\ (\E g \in found : g.owner_id # caller)
                  => req'[p].pc = "done" /\ req'[p].resp = "403_owner"
               /\ (\E g \in found : g.owner_id = caller) => req'[p].pc # "done"
               /\ UNCHANGED groupVars]_vars

(* A caller who owns no group was answered 404 for an id that names no     *)
(* group.                                                                  *)
C9_Witness ==
    \E p \in Reqs :
        /\ IsDone(p) /\ req[p].op \in OwnerOnlyOps
        /\ req[p].resp = "404_group"
        /\ req[p].current_user.role = "student"

GroupCreatorRoles == {"teacher", "admin", "superadmin"}

(* C10: create_group succeeds exactly for a teacher, an admin or a         *)
(* superadmin; the new group has the caller as owner, no member and        *)
(* members_count 0; a student gets 403 and no group is created.            *)
C10_CreateByRole ==
    /\ [](\A p \in Reqs :
            (IsDone(p) /\ req[p].op = "create_group")
            => /\ req[p].resp = "201" <=> req[p].current_user.role \in GroupCreatorRoles
               /\ req[p].resp = "403_role" <=> req[p].current_user.role = "student")
    /\ [][\A p \in Reqs :
            /\ Starts(p, "create_group") => UNCHANGED groupVars
            /\ (Ends(p) /\ req'[p].op = "create_group" /\ req'[p].resp = "201")
               => \E g \in groups' :
                    /\ g \notin groups
                    /\ groups' = groups \cup {g}
                    /\ g.uid = req'[p].group_uid
                    /\ g.owner_id = req'[p].current_user.id
                    /\ g.members_count = 0
                    /\ StoredMembers(g.uid)' = {}]_vars

(* A superadmin has created a group. *)
C10_Witness ==
    \E p \in Reqs :
        /\ IsDone(p) /\ req[p].op = "create_group" /\ req[p].resp = "201"
        /\ req[p].current_user.role = "superadmin"
        /\ \E g \in SelectGroup(req[p].group_uid) : g.owner_id = req[p].current_user.id


(* C11: get_group on an existing group succeeds exactly when the caller is *)
(* its owner or is in its member set, and then returns the members; any     *)
(* other caller gets 403.  So a user reads the group once add_member has   *)
(* stored them and gets 403 again once remove_member has dropped them.     *)
C11_ReadByOwnerOrMember ==
    \A p \in Reqs :
        (IsDone(p) /\ req[p].op = "get_group")
        => \A g \in SelectGroup(req[p].group_uid) :
             LET caller == req[p].current_user.id
                 allowed == g.owner_id = caller \/ caller \in StoredMembers(g.uid)
             IN /\ req[p].resp = (IF allowed THEN "200" ELSE "403_access")
                /\ allowed => {x.id : x \in req[p].result} = StoredMembers(g.uid)

(* A member who is not the owner has read the group and is listed. *)
C11_Witness ==
    \E p \in Reqs :
        /\ IsDone(p) /\ req[p].op = "get_group" /\ req[p].resp = "200"
        /\ \E g \in SelectGroup(req[p].group_uid) : g.owner_id # req[p].current_user.id
        /\ req[p].current_user \in req[p].result

(* The request ending in this step got past check_group_ownership. *)
EndsByOwner(p, op) ==
    /\ Ends(p)
    /\ req'[p].op = op
    /\ req'[p].resp \notin {"404_group", "403_owner"}

(* C12: add_member by the owner answers NotFound when the target is not a  *)
(* stored user and Conflict when the target is already a member, changing  *)
(* neither the member set nor members_count; otherwise it adds exactly     *)
(* that user; and every member row names a stored user.                    *)
C12_AddMemberOutcomes ==
    /\ [](\A m \in group_members : \E x \in users : x.id = m[2])
    /\ [][\A p \in Reqs :
            EndsByOwner(p, "add_member")
            => LET gid == req[p].group_uid
                   target == req[p].user_id
                   before == StoredMembers(gid)
               IN IF ~\E x \in users : x.id = target
                  THEN req'[p].resp = "404_user" /\ UNCHANGED groupVars
                  ELSE IF target \in before
                  THEN req'[p].resp = "400_member" /\ UNCHANGED groupVars
                  ELSE /\ req'[p].resp = "200"
                       /\ StoredMembers(gid)' = before \cup {target}
                       /\ \A g \in SelectGroup(gid)' :
                            g.members_count = Cardinality(before) + 1]_vars

(* C13: remove_member by the owner answers NotFound when the target is not *)
(* in the member set, changing neither the member set nor members_count;   *)
(* otherwise it removes exactly that user and sets members_count to the    *)
(* size of the remaining set.                                              *)
C13_RemoveMemberOutcomes ==
    [][\A p \in Reqs :
         EndsByOwner(p, "remove_member")
         => LET gid == req[p].group_uid
                target == req[p].user_id
                before == StoredMembers(gid)
            IN IF target \notin before
               THEN req'[p].resp = "404_member" /\ UNCHANGED groupVars
               ELSE /\ req'[p].resp = "200"
                    /\ StoredMembers(gid)' = before \ {target}
                    /\ \A g \in SelectGroup(gid)' :
                         g.members_count = Cardinality(before \ {target})]_vars

(* C14: a group's owner_id never changes once the group exists; creating  *)
(* a group stores no member row for the owner; and the owner passes the    *)
(* ownership check and the read-access check whether or not they are in    *)
(* the member set, so being added and removed as a member changes neither. *)
C14_OwnerIsFixed ==
    /\ [](\A p \in Reqs :
            (IsDone(p) /\ req[p].op = "get_group")
            => \A g \in SelectGroup(req[p].group_uid) :
                 g.owner_id = req[p].current_user.id => req[p].resp = "200")
    /\ [][/\ \A g \in groups, h \in groups' : g.uid = h.uid => h.owner_id = g.owner_id
          /\ \A h \in groups' \ groups :
               (\A g \in groups : g.uid # h.uid) => h.owner_id \notin StoredMembers(h.uid)'
          /\ \A p \in Reqs :
               (/\ req[p].pc = "idle" /\ req'[p].pc # "idle"
                /\ req'[p].op \in OwnerOnlyOps
                /\ \E g \in SelectGroup(req'[p].group_uid) :
                     g.owner_id = req'[p].current_user.id)
               => req'[p].pc # "done"]_vars

(* The owner, a member until now, has removed themself from the member set *)
(* and still owns the group.                                               *)
C14_Witness ==
    \E p \in Reqs :
        /\ IsDone(p) /\ req[p].op = "remove_member" /\ req[p].resp = "200"
        /\ req[p].user_id = req[p].current_user.id
        /\ \E g \in SelectGroup(req[p].group_uid) :
             /\ g.owner_id = req[p].current_user.id
             /\ g.owner_id \notin StoredMembers(g.uid)

(* C15: create_word, and update_word carrying a category_uid, answer       *)
(* NotFound when the category_uid names no stored category; no word is     *)
(* created and no field of the word being updated is changed.              *)
C15_CategoryMustExist ==
    [][\A p \in Reqs :
         /\ (Starts(p, "create_word") /\ SelectCategory(req'[p].category_uid) = {})
            => /\ req'[p].pc = "done"
               /\ req'[p].resp = "404_category"
               /\ UNCHANGED wordVars
         /\ (/\ req[p].pc = "update_find_category"
             /\ req'[p] # req[p]
             /\ SelectCategory(req[p].category_uid) = {})
            => /\ req'[p].pc = "done"
               /\ req'[p].resp = "404_category"
               /\ UNCHANGED wordVars]_vars

(* An update_word that also carried a new uzbek was answered NotFound for  *)
(* its category, and the stored word kept its uzbek.                       *)
C15_Witness ==
    \E p \in Reqs :
        /\ IsDone(p) /\ req[p].op = "update_word" /\ req[p].resp = "404_category"
        /\ req[p].uzbek # None
        /\ \E w \in SelectWord(req[p].word_uid) : w.uzbek # req[p].uzbek

(* C16: while a search waits for the provider's response, the request     *)
(* holds no open store transaction.                                        *)
C16_NoTransactionWhileWaiting ==
    \A p \in Reqs : req[p].pc = "await_provider" => ~req[p].tx

(* C17: when a search reaches the insert of the fallback category after    *)
(* another request has committed one, the unique name lets no second       *)
(* category of that name in, and the request either ends in a Conflict-    *)
(* class error or goes on to store its word under the category that is     *)
(* there; it does not end in an internal error.                            *)
C17_FallbackRaceHandled ==
    /\ [](Cardinality(SelectCategoryNamed(FallbackName)) <= 1)
    /\ [][\A p \in Reqs :
            (/\ req[p].pc = "create_category"
             /\ req'[p] # req[p]
             /\ SelectCategoryNamed(FallbackName) # {})
            => \/ req'[p].pc = "done" /\ req'[p].resp \in {"400_exists", "409"}
               \/ /\ req'[p].pc = "insert_word"
                  /\ \E c \in SelectCategoryNamed(FallbackName) :
                       req'[p].category_uid = c.uid]_vars

(* C19: in every reachable state the store holds at most 3 users, also     *)
(* when registrations interleave.                                          *)
C19_AtMostThreeUsers == Cardinality(users) <= MaxUsers

GroupOps == OwnerOnlyOps \cup {"get_group"}

(* The group ids handed out so far that name no stored group. *)
DeletedGroupIds == {i \in 1..nextGid : SelectGroup(i) = {}}

(* C20: a group leaves the store only in a successful delete_group of its  *)
(* owner, together with its membership rows; from then on its id names no  *)
(* group again, and every get_group, update_group, delete_group,           *)
(* add_member and remove_member on it is answered 404, whoever calls.      *)
C20_DeletionIsTerminal ==
    /\ [](\A i \in DeletedGroupIds : StoredMembers(i) = {})
    /\ [][/\ \A g \in groups :
               (\A h \in groups' : h.uid # g.uid)
               => /\ \E p \in Reqs :
                       /\ Ends(p)
                       /\ req'[p].op = "delete_group" /\ req'[p].resp = "204"
                       /\ req'[p].group_uid = g.uid
                       /\ req'[p].current_user.id = g.owner_id
                  /\ \A m \in group_members' : m[1] # g.uid
          /\ \A i \in DeletedGroupIds : \A h \in groups' : h.uid # i
          /\ \A p \in Reqs :
               (/\ req[p].pc = "idle" /\ req'[p].pc # "idle"
                /\ req'[p].op \in GroupOps
                /\ req'[p].group_uid \in DeletedGroupIds)
               => req'[p].pc = "done" /\ req'[p].resp = "404_group"]_vars

(* A student who read the id of a deleted group was answered 404. *)
C20_Witness ==
    \E p \in Reqs :
        /\ IsDone(p) /\ req[p].op = "get_group" /\ req[p].resp = "404_group"
        /\ req[p].group_uid \in DeletedGroupIds
        /\ req[p].current_user.role = "student"

(* C21: in every reachable state every stored word's category_uid names a  *)
(* stored category: a delete_category of a category that still has words   *)
(* removes nothing, and a create_word or update_word whose category was    *)
(* deleted after its existence check commits nothing.                      *)
C21_WordsReferToCategories ==
    \A w \in words : SelectCategory(w.category_uid) # {}

(* A create_word or update_word passed its category check, the category    *)
(* was deleted before its commit, and the request ended without its word   *)
(* referring to the missing category.                                      *)
C21_Witness ==
    \E p \in Reqs :
        /\ IsDone(p) /\ req[p].op \in {"create_word", "update_word"}
        /\ req[p].resp = "500"
        /\ req[p].category_uid \in 1..MaxCats
        /\ SelectCategory(req[p].category_uid) = {}

====
